---- MODULE Spec2Model ----
(***************************************************************************)
(* Model of scripts/generate_recipes.py: the recipe-table generator of the *)
(* factory game.  The script holds two authored dictionaries (smelting and *)
(* general recipes), formats every definition as a Rust `Recipe`, formats  *)
(* one `match` arm of slot metadata per general recipe, concatenates the   *)
(* three declarations and writes them to src/crafting/data.rs.             *)
(*                                                                         *)
(* Conventions                                                             *)
(*  - A duration is an exact rational [n, d] (n/d seconds, d > 0).  The    *)
(*    authored literals 1, 5, 2, 12, 0.5 and 0.1 are 1/1, 5/1, 2/1, 12/1,  *)
(*    1/2 and 1/10; Python's float results of `1 / time` and `round` agree *)
(*    with the exact ones on every duration of the modelled range.         *)
(*  - A Python dict is the sequence of its items in insertion order, with  *)
(*    pairwise distinct keys: [name, data].                                *)
(*  - Generated Rust text is kept structured: a formatted item is a record *)
(*    of the constructor and the two interpolated fields, a time           *)
(*    expression is the operator and the integer literal, a table is the   *)
(*    declaration name and the sequence of its entries, the match is the   *)
(*    sequence of its arms.                                                *)
(*  - A Python exception is the field exc of a result ("" when none).      *)
(***************************************************************************)
EXTENDS Integers, Sequences, FiniteSets, TLC

VARIABLES pc, arg_time, ret_time, arg_name, arg_data, ret_recipe, ret_slot_meta,
          in_furnace, in_recipes, string, file, writes

vars == <<pc, arg_time, ret_time, arg_name, arg_data, ret_recipe, ret_slot_meta,
          in_furnace, in_recipes, string, file, writes>>

(***************************************************************************)
(* Bounds of the explored inputs.                                          *)
(***************************************************************************)
MaxNum == 12
MaxDen == 10
MaxQty == 2
MaxReqs == 2
MaxRecipes == 2
MaxFurnace == 1

(***************************************************************************)
(* Values.                                                                 *)
(***************************************************************************)
Dur(n, d) == [n |-> n, d |-> d]

Def(name, requirements, amount, time) ==
    [name |-> name,
     data |-> [requirements |-> requirements, amount |-> amount, time |-> time]]

furnace_recipes ==
    << Def("IronPlate",   << <<"IronOre", 1>> >>,   1, Dur(1, 1)),
       Def("CopperPlate", << <<"CopperOre", 1>> >>, 1, Dur(1, 1)),
       Def("SteelPlate",  << <<"IronPlate", 5>> >>, 1, Dur(5, 1)) >>

recipes ==
    << Def("Brick", << <<"Voxel(Voxel::Stone)", 2>> >>, 1, Dur(1, 2)),
       Def("IronGearWheel", << <<"IronPlate", 2>> >>, 1, Dur(1, 2)),
       Def("IronRod", << <<"IronPlate", 1>> >>, 2, Dur(1, 2)),
       Def("CopperWire", << <<"CopperPlate", 1>> >>, 3, Dur(1, 2)),
       Def("MechanicalComponent",
           << <<"IronRod", 2>>, <<"IronGearWheel", 1>> >>, 1, Dur(1, 1)),
       Def("ElectronicsKit",
           << <<"CopperWire", 3>>, <<"CopperPlate", 1>> >>, 1, Dur(1, 1)),
       Def("CircuitBoard",
           << <<"ElectronicsKit", 2>>, <<"IronPlate", 4>> >>, 1, Dur(1, 1)),
       Def("Structure(StructureKind::Belt)",
           << <<"IronGearWheel", 1>>, <<"Voxel(Voxel::Stone)", 4>> >>, 3, Dur(2, 1)),
       Def("Structure(StructureKind::Splitter)",
           << <<"Structure(StructureKind::Belt)", 4>>, <<"ElectronicsKit", 1>> >>,
           1, Dur(2, 1)),
       Def("Structure(StructureKind::Chest)",
           << <<"IronGearWheel", 2>>, <<"Voxel(Voxel::Stone)", 16>> >>, 1, Dur(2, 1)),
       Def("Structure(StructureKind::Silo)",
           << <<"Structure(StructureKind::Chest)", 4>>, <<"Voxel(Voxel::Stone)", 64>> >>,
           1, Dur(2, 1)),
       Def("Structure(StructureKind::Inserter)",
           << <<"MechanicalComponent", 1>>, <<"ElectronicsKit", 1>> >>, 1, Dur(2, 1)),
       Def("Structure(StructureKind::Furnace)",
           << <<"Voxel(Voxel::Stone)", 16>>, <<"Coal", 4>> >>, 1, Dur(2, 1)),
       Def("Structure(StructureKind::SteelFurnace)",
           << <<"SteelPlate", 8>>, <<"Brick", 32>> >>, 1, Dur(12, 1)),
       Def("Structure(StructureKind::Quarry)",
           << <<"MechanicalComponent", 4>>, <<"Voxel(Voxel::Stone)", 12>> >>,
           1, Dur(2, 1)),
       Def("Structure(StructureKind::Assembler)",
           << <<"MechanicalComponent", 3>>, <<"ElectronicsKit", 2>> >>, 1, Dur(2, 1)),
       Def("Radar",
           << <<"SteelPlate", 30>>, <<"CircuitBoard", 20>>, <<"Brick", 50>> >>,
           1, Dur(1, 10)) >>

(***************************************************************************)
(* Python's round() of the non-negative rational n/d: nearest integer,     *)
(* ties to the even neighbour.                                             *)
(***************************************************************************)
round(n, d) ==
    LET q == n \div d
        r == n % d
    IN  IF 2 * r < d THEN q
        ELSE IF 2 * r > d THEN q + 1
        ELSE IF q % 2 = 0 THEN q ELSE q + 1

(***************************************************************************)
(* rust_item: "Item::new(ItemKind::{kind}, {amount})".                     *)
(***************************************************************************)
rust_item(kind, amount) ==
    [ctor |-> "Item::new", kind |-> kind, amount |-> amount]

(***************************************************************************)
(* rust_time_expr.  `time == 1`, `time < 1`, else; `1 / time` raises       *)
(* ZeroDivisionError when time is 0.                                       *)
(***************************************************************************)
rust_time_expr_trunc(time) ==
    IF time.n = time.d THEN [op |-> "T", k |-> 1]
    ELSE IF time.n < time.d THEN
        IF time.n = 0 THEN [op |-> "ZeroDivisionError", k |-> 0]
        ELSE [op |-> "div", k |-> time.d \div time.n]
    ELSE [op |-> "mul", k |-> time.n \div time.d]

rust_time_expr_norecip(time) ==
    IF time.n = time.d THEN [op |-> "T", k |-> 1]
    ELSE IF time.n < time.d THEN
        IF time.n = 0 THEN [op |-> "ZeroDivisionError", k |-> 0]
        ELSE [op |-> "div", k |-> round(time.n, time.d)]
    ELSE [op |-> "mul", k |-> round(time.n, time.d)]

rust_time_expr_swapped(time) ==
    IF time.n = time.d THEN [op |-> "T", k |-> 1]
    ELSE IF time.n < time.d THEN
        IF time.n = 0 THEN [op |-> "ZeroDivisionError", k |-> 0]
        ELSE [op |-> "div", k |-> round(time.d, time.n)]
    ELSE [op |-> "div", k |-> round(time.n, time.d)]

rust_time_expr(time) ==
    IF time.n = time.d THEN [op |-> "T", k |-> 1]
    ELSE IF time.n < time.d THEN
        IF time.n = 0 THEN [op |-> "ZeroDivisionError", k |-> 0]
        ELSE [op |-> "div", k |-> round(time.d, time.n)]
    ELSE [op |-> "mul", k |-> round(time.n, time.d)]

(***************************************************************************)
(* rust_recipe: the requirements in list order, the result, the time; an   *)
(* exception of rust_time_expr propagates and no text is returned.         *)
(***************************************************************************)
NoItem == [ctor |-> "", kind |-> "", amount |-> 0]

NoRecipe ==
    [exc |-> "", requirements |-> <<>>, result |-> NoItem, time |-> [op |-> "", k |-> 0]]

rust_recipe_reversed(name, data) ==
    LET n == Len(data.requirements)
        requirements == [j \in 1..n |->
                            rust_item(data.requirements[n + 1 - j][1],
                                      data.requirements[n + 1 - j][2])]
        result == rust_item(name, data.amount)
        time == rust_time_expr(data.time)
    IN  IF time.op = "ZeroDivisionError"
        THEN [NoRecipe EXCEPT !.exc = time.op]
        ELSE [exc |-> "", requirements |-> requirements, result |-> result, time |-> time]

rust_recipe(name, data) ==
    LET requirements == [j \in 1..Len(data.requirements) |->
                            rust_item(data.requirements[j][1], data.requirements[j][2])]
        result == rust_item(name, data.amount)
        time == rust_time_expr(data.time)
    IN  IF time.op = "ZeroDivisionError"
        THEN [NoRecipe EXCEPT !.exc = time.op]
        ELSE [exc |-> "", requirements |-> requirements, result |-> result, time |-> time]

(***************************************************************************)
(* generate_recipes / generate_furnace_recipes: one entry per item of the  *)
(* dictionary, in iteration order; the first raising entry aborts.         *)
(***************************************************************************)
Min(S) == CHOOSE x \in S : \A y \in S : x <= y

Table(decl, rs) ==
    LET items == [i \in 1..Len(rs) |-> rust_recipe(rs[i].name, rs[i].data)]
        raised == {i \in 1..Len(rs) : items[i].exc # ""}
    IN  IF raised # {}
        THEN [exc |-> items[Min(raised)].exc, decl |-> decl, items |-> <<>>]
        ELSE [exc |-> "", decl |-> decl, items |-> items]

generate_recipes(rs) == Table("RECIPES", rs)

generate_furnace_recipes(rs) == Table("FURNACE_RECIPES", rs)

(***************************************************************************)
(* generate_slot_meta: the arm `index => { SLOTS }` with one Input slot    *)
(* per requirement followed by the Output slot.                            *)
(***************************************************************************)
SlotMeta(capacity, kind, filter) ==
    [capacity |-> capacity, kind |-> kind, filter |-> filter]

NoArm == [wild |-> FALSE, pat |-> 0, slots |-> <<>>, body |-> ""]

generate_slot_meta_undoubled(index, data) ==
    LET inputs == [j \in 1..Len(data.requirements) |->
                      SlotMeta(2 * data.requirements[j][2], "Input",
                               data.requirements[j][1])]
        amount == data.amount
    IN  [wild |-> FALSE, pat |-> index,
         slots |-> inputs \o << SlotMeta(amount, "Output", "") >>,
         body |-> "SLOTS"]

generate_slot_meta_outfirst(index, data) ==
    LET inputs == [j \in 1..Len(data.requirements) |->
                      SlotMeta(2 * data.requirements[j][2], "Input",
                               data.requirements[j][1])]
        amount == data.amount * 2
    IN  [wild |-> FALSE, pat |-> index,
         slots |-> << SlotMeta(amount, "Output", "") >> \o inputs,
         body |-> "SLOTS"]

generate_slot_meta(index, data) ==
    LET inputs == [j \in 1..Len(data.requirements) |->
                      SlotMeta(2 * data.requirements[j][2], "Input",
                               data.requirements[j][1])]
        amount == data.amount * 2
    IN  [wild |-> FALSE, pat |-> index,
         slots |-> inputs \o << SlotMeta(amount, "Output", "") >>,
         body |-> "SLOTS"]

(***************************************************************************)
(* generate_slot_match: arm i for the i-th item (enumerate from 0), then   *)
(* the arm `_ => unreachable!()`.                                          *)
(***************************************************************************)
Unreachable == [wild |-> TRUE, pat |-> 0, slots |-> <<>>, body |-> "unreachable!()"]

generate_slot_match_reversed(rs) ==
    [exc |-> "", decl |-> "crafting_recipe_inventory",
     arms |-> [i \in 1..Len(rs) |-> generate_slot_meta(i - 1, rs[Len(rs) + 1 - i].data)]
              \o << Unreachable >>]

generate_slot_match_from1(rs) ==
    [exc |-> "", decl |-> "crafting_recipe_inventory",
     arms |-> [i \in 1..Len(rs) |-> generate_slot_meta(i, rs[i].data)]
              \o << Unreachable >>]

generate_slot_match(rs) ==
    [exc |-> "", decl |-> "crafting_recipe_inventory",
     arms |-> [i \in 1..Len(rs) |-> generate_slot_meta(i - 1, rs[i].data)]
              \o << Unreachable >>]

(***************************************************************************)
(* Input domains.                                                          *)
(***************************************************************************)
Durations == {Dur(n, d) : n \in 0..MaxNum, d \in 1..MaxDen}

Kinds == {"IronPlate", "Brick", "NoSuchKind"}

Quantities == 0..MaxQty

Requirements == UNION {[1..m -> Kinds \X Quantities] : m \in 0..MaxReqs}

DefTimes == {Dur(0, 1), Dur(1, 2), Dur(1, 1), Dur(3, 2), Dur(2, 1)}

Items(rs) == {rs[i] : i \in 1..Len(rs)}

Definitions ==
    {Def(nm, rq, am, t) : nm \in Kinds, rq \in Requirements, am \in Quantities,
                          t \in DefTimes}
    \cup Items(furnace_recipes) \cup Items(recipes)

Dicts(pool, max) ==
    {rs \in UNION {[1..m -> pool] : m \in 0..max} :
        \A i, j \in 1..Len(rs) : rs[i].name = rs[j].name => i = j}

FurnacePool ==
    {Def(nm, << <<"IronOre", 1>> >>, 1, t) :
        nm \in {"IronPlate", "CopperPlate"}, t \in {Dur(0, 1), Dur(1, 1)}}

RecipePool ==
    {Def(nm, rq, am, t) :
        nm \in {"Brick", "IronRod", "CopperWire"},
        rq \in {<<>>, << <<"IronPlate", 1>>, <<"Brick", 2>> >>},
        am \in {1, 3},
        t \in {Dur(0, 1), Dur(1, 2), Dur(3, 2)}}

NoDef == Def("", <<>>, 0, Dur(1, 1))

NoTime == [op |-> "", k |-> 0]

(***************************************************************************)
(* The script body (lines 222-241).  `string` starts as the fixed header   *)
(* and grows by one declaration per statement; an exception ends the run.  *)
(***************************************************************************)
Header == [exc |-> "", decl |-> "// AUTO GENERATED CODE", items |-> <<>>]

Init ==
    /\ pc = "L235"
    /\ \/ /\ in_furnace \in Dicts(FurnacePool, MaxFurnace)
          /\ in_recipes \in Dicts(RecipePool, MaxRecipes)
       \/ /\ in_furnace = furnace_recipes
          /\ in_recipes = recipes
    /\ string = << Header >>
    /\ file = <<>>
    /\ writes = 0
    /\ arg_time = Dur(1, 1)
    /\ ret_time = NoTime
    /\ arg_name = NoDef.name
    /\ arg_data = NoDef.data
    /\ ret_recipe = NoRecipe
    /\ ret_slot_meta = NoArm

Unused == <<arg_time, ret_time, arg_name, arg_data, ret_recipe, ret_slot_meta>>

Append_furnace_leaky ==
    /\ pc = "L235"
    /\ LET g == generate_furnace_recipes(in_furnace)
       IN  IF g.exc # ""
           THEN /\ pc' = "raised"
                /\ file' = string
                /\ writes' = writes + 1
                /\ UNCHANGED string
           ELSE /\ pc' = "L237"
                /\ string' = Append(string, g)
                /\ UNCHANGED <<file, writes>>
    /\ UNCHANGED <<in_furnace, in_recipes, Unused>>

Append_furnace ==
    /\ pc = "L235"
    /\ LET g == generate_furnace_recipes(in_furnace)
       IN  IF g.exc # ""
           THEN /\ pc' = "raised"
                /\ UNCHANGED string
           ELSE /\ pc' = "L237"
                /\ string' = Append(string, g)
    /\ UNCHANGED <<in_furnace, in_recipes, file, writes, Unused>>

Append_recipes ==
    /\ pc = "L237"
    /\ LET g == generate_recipes(in_recipes)
       IN  IF g.exc # ""
           THEN /\ pc' = "raised"
                /\ UNCHANGED string
           ELSE /\ pc' = "L239"
                /\ string' = Append(string, g)
    /\ UNCHANGED <<in_furnace, in_recipes, file, writes, Unused>>

Append_slot_match ==
    /\ pc = "L239"
    /\ string' = Append(string, generate_slot_match(in_recipes))
    /\ pc' = "L241"
    /\ UNCHANGED <<in_furnace, in_recipes, file, writes, Unused>>

Write_file ==
    /\ pc = "L241"
    /\ file' = string
    /\ writes' = writes + 1
    /\ pc' = "done"
    /\ UNCHANGED <<in_furnace, in_recipes, string, Unused>>

Next == Append_furnace \/ Append_recipes \/ Append_slot_match \/ Write_file

Spec == Init /\ [][Next]_vars

(***************************************************************************)
(* rust_time_expr applied to one duration.                                 *)
(***************************************************************************)
ScriptIdle == <<in_furnace, in_recipes, string, file, writes>>

InitTime ==
    /\ pc = "call"
    /\ arg_time \in Durations
    /\ ret_time = NoTime
    /\ arg_name = NoDef.name
    /\ arg_data = NoDef.data
    /\ ret_recipe = NoRecipe
    /\ ret_slot_meta = NoArm
    /\ in_furnace = <<>>
    /\ in_recipes = <<>>
    /\ string = <<>>
    /\ file = <<>>
    /\ writes = 0

Call_rust_time_expr ==
    /\ pc = "call"
    /\ ret_time' = rust_time_expr(arg_time)
    /\ pc' = "returned"
    /\ UNCHANGED <<arg_time, arg_name, arg_data, ret_recipe, ret_slot_meta, ScriptIdle>>

NextTime == Call_rust_time_expr

SpecTime == InitTime /\ [][NextTime]_vars

(***************************************************************************)
(* rust_recipe and generate_slot_meta applied to one definition.           *)
(***************************************************************************)
InitRecipe ==
    /\ pc = "call_recipe"
    /\ \E df \in Definitions :
          /\ arg_name = df.name
          /\ arg_data = df.data
    /\ arg_time = Dur(1, 1)
    /\ ret_time = NoTime
    /\ ret_recipe = NoRecipe
    /\ ret_slot_meta = NoArm
    /\ in_furnace = <<>>
    /\ in_recipes = <<>>
    /\ string = <<>>
    /\ file = <<>>
    /\ writes = 0

Call_rust_recipe ==
    /\ pc = "call_recipe"
    /\ ret_recipe' = rust_recipe(arg_name, arg_data)
    /\ pc' = "call_slot_meta"
    /\ UNCHANGED <<arg_time, ret_time, arg_name, arg_data, ret_slot_meta, ScriptIdle>>

Call_generate_slot_meta ==
    /\ pc = "call_slot_meta"
    /\ \E index \in 0..(MaxRecipes - 1) :
          ret_slot_meta' = generate_slot_meta(index, arg_data)
    /\ pc' = "returned"
    /\ UNCHANGED <<arg_time, ret_time, arg_name, arg_data, ret_recipe, ScriptIdle>>

NextRecipe == Call_rust_recipe \/ Call_generate_slot_meta

SpecRecipe == InitRecipe /\ [][NextRecipe]_vars

(***************************************************************************)
(* Auxiliary notions used by the properties.                               *)
(***************************************************************************)
Abs(x) == IF x < 0 THEN -x ELSE x

\* k is an integer nearest to a/b (b > 0), the even one of the two when a/b is
\* halfway between them
NearestTiesEven(k, a, b) ==
    /\ 2 * Abs(k * b - a) <= b
    /\ 2 * Abs(k * b - a) = b => k % 2 = 0

\* the duration (in seconds) that the tick expression e stands for is t:
\* T / T = 1, (T / k) / T = 1/k, (T * k) / T = k, in exact arithmetic
Reconstructs(e, t) ==
    \/ e.op = "T" /\ t.n = t.d
    \/ e.op = "div" /\ e.k > 0 /\ t.n * e.k = t.d
    \/ e.op = "mul" /\ e.k * t.d = t.n

\* item, structure and voxel kinds that the authored tables name
KnownKinds ==
    LET all == Items(furnace_recipes) \cup Items(recipes)
    IN  {df.name : df \in all}
        \cup UNION {{df.data.requirements[j][1] : j \in 1..Len(df.data.requirements)} :
                    df \in all}

QuantitiesPositive(data) ==
    /\ data.amount > 0
    /\ \A j \in 1..Len(data.requirements) : data.requirements[j][2] > 0

KindsKnown(name, data) ==
    /\ name \in KnownKinds
    /\ \A j \in 1..Len(data.requirements) : data.requirements[j][1] \in KnownKinds

Valid(name, data) ==
    /\ KindsKnown(name, data)
    /\ QuantitiesPositive(data)
    /\ data.time.n > 0

\* the arm a Rust `match idx { ... }` selects: the first arm whose pattern matches
MatchArm(arms, idx) ==
    arms[Min({j \in 1..Len(arms) : arms[j].wild \/ arms[j].pat = idx})]

AnyRaises(rs) == \E i \in 1..Len(rs) : rs[i].data.time.n = 0

(***************************************************************************)
(* C1: for every positive duration d, rust_time_expr returns the bare      *)
(* constant when d = 1, the constant divided by the integer nearest to 1/d *)
(* (ties to even) when d < 1, and the constant multiplied by the integer   *)
(* nearest to d when d > 1; 0.5 gives T/2, 5 gives T*5, 0.1 gives T/10 and *)
(* 12 gives T*12.                                                          *)
(***************************************************************************)
C1_TimeExprBranches ==
    (pc = "returned" /\ arg_time.n > 0) =>
        /\ arg_time.n = arg_time.d => ret_time.op = "T"
        /\ arg_time.n < arg_time.d =>
              /\ ret_time.op = "div"
              /\ NearestTiesEven(ret_time.k, arg_time.d, arg_time.n)
        /\ arg_time.n > arg_time.d =>
              /\ ret_time.op = "mul"
              /\ NearestTiesEven(ret_time.k, arg_time.n, arg_time.d)
        /\ arg_time = Dur(1, 2) => ret_time = [op |-> "div", k |-> 2]
        /\ arg_time = Dur(5, 1) => ret_time = [op |-> "mul", k |-> 5]
        /\ arg_time = Dur(1, 10) => ret_time = [op |-> "div", k |-> 10]
        /\ arg_time = Dur(12, 1) => ret_time = [op |-> "mul", k |-> 12]

C1_Witness ==
    /\ pc = "returned"
    /\ arg_time = Dur(5, 2)
    /\ ret_time = [op |-> "mul", k |-> 2]

C2_SlotCapacityDoubled ==
    pc = "returned" =>
        LET reqs == arg_data.requirements
            slots == ret_slot_meta.slots
        IN  /\ Len(slots) > Len(reqs)
            /\ \A j \in 1..Len(reqs) : slots[j].capacity = 2 * reqs[j][2]
            /\ slots[Len(reqs) + 1].capacity = 2 * arg_data.amount
            /\ \A j \in 1..Len(slots) : slots[j].capacity % 2 = 0

C2_Witness ==
    /\ pc = "returned"
    /\ arg_name = "Radar"
    /\ Len(ret_slot_meta.slots) = 4
    /\ ret_slot_meta.slots[1].capacity = 60
    /\ ret_slot_meta.slots[3].capacity = 100
    /\ ret_slot_meta.slots[4].capacity = 2

(***************************************************************************)
(* C3: the slot arm of a definition with k ingredients has exactly k + 1   *)
(* slots: slot j (j <= k) is an input slot filtered to the kind of the     *)
(* j-th ingredient, the last one is the unfiltered output slot, no input   *)
(* slot follows the output slot, and with no ingredients the output slot   *)
(* is the only slot.                                                       *)
(***************************************************************************)
C3_SlotLayoutShape ==
    pc = "returned" =>
        LET reqs == arg_data.requirements
            slots == ret_slot_meta.slots
            k == Len(reqs)
        IN  /\ Len(slots) = k + 1
            /\ \A j \in 1..Len(slots) :
                  j <= k => /\ slots[j].kind = "Input"
                            /\ slots[j].filter = reqs[j][1]
            /\ slots[Len(slots)].kind = "Output"
            /\ slots[Len(slots)].filter = ""
            /\ Cardinality({j \in 1..Len(slots) : slots[j].kind = "Output"}) = 1
            /\ \A i, j \in 1..Len(slots) :
                  (i < j /\ slots[i].kind = "Output") => slots[j].kind # "Input"
            /\ k = 0 => Len(slots) = 1

C3_Witness ==
    /\ pc = "returned"
    /\ Len(arg_data.requirements) = 2
    /\ arg_data.requirements[1][1] # arg_data.requirements[2][1]
    /\ Len(ret_slot_meta.slots) = 3
    /\ ret_slot_meta.slots[2].filter = arg_data.requirements[2][1]
    /\ ret_slot_meta.slots[3].kind = "Output"

(***************************************************************************)
(* C8: for a valid definition the recipe has as many ingredients as the    *)
(* definition has requirements, in the same order with the same kinds and  *)
(* quantities, and its result is (name, amount); IronGearWheel with        *)
(* [(IronPlate, 2)], amount 1, time 0.5 gives [(IronPlate, 2)],            *)
(* (IronGearWheel, 1), T/2.                                                *)
(***************************************************************************)
C8_RecipePreservesDefinition ==
    (pc # "call_recipe" /\ Valid(arg_name, arg_data)) =>
        LET reqs == arg_data.requirements
        IN  /\ ret_recipe.exc = ""
            /\ Len(ret_recipe.requirements) = Len(reqs)
            /\ \A j \in 1..Len(reqs) :
                  /\ j <= Len(ret_recipe.requirements)
                  /\ ret_recipe.requirements[j].ctor = "Item::new"
                  /\ ret_recipe.requirements[j].kind = reqs[j][1]
                  /\ ret_recipe.requirements[j].amount = reqs[j][2]
            /\ ret_recipe.result.kind = arg_name
            /\ ret_recipe.result.amount = arg_data.amount
            /\ arg_name = "IronGearWheel" =>
                  /\ ret_recipe.requirements
                        = << [ctor |-> "Item::new", kind |-> "IronPlate", amount |-> 2] >>
                  /\ ret_recipe.result
                        = [ctor |-> "Item::new", kind |-> "IronGearWheel", amount |-> 1]
                  /\ ret_recipe.time = [op |-> "div", k |-> 2]

C8_Witness ==
    /\ pc = "call_slot_meta"
    /\ Valid(arg_name, arg_data)
    /\ Len(arg_data.requirements) = 2
    /\ arg_data.requirements[1] # arg_data.requirements[2]
    /\ ret_recipe.requirements[1].kind = arg_data.requirements[1][1]
    /\ ret_recipe.requirements[2].amount = arg_data.requirements[2][2]
    /\ ret_recipe.result.kind = arg_name

(***************************************************************************)
(* C7: a definition whose name or an ingredient name is not a known kind   *)
(* fails with UnknownItemKind, one with a non-positive ingredient or       *)
(* output quantity fails with InvalidQuantity, and no recipe is produced   *)
(* for it.                                                                 *)
(***************************************************************************)
C7_InvalidDefinitionRejected ==
    pc # "call_recipe" =>
        /\ ~KindsKnown(arg_name, arg_data) =>
              /\ ret_recipe.exc \in {"UnknownItemKind", "InvalidQuantity"}
              /\ ret_recipe.result = NoItem
        /\ ~QuantitiesPositive(arg_data) =>
              /\ ret_recipe.exc \in {"UnknownItemKind", "InvalidQuantity"}
              /\ ret_recipe.result = NoItem
        /\ (KindsKnown(arg_name, arg_data) /\ ~QuantitiesPositive(arg_data)) =>
              ret_recipe.exc = "InvalidQuantity"
        /\ (~KindsKnown(arg_name, arg_data) /\ QuantitiesPositive(arg_data)) =>
              ret_recipe.exc = "UnknownItemKind"

(***************************************************************************)
(* C4: the written general table has one entry per definition, entry i is  *)
(* the i-th definition of the dictionary, and the match arm for index i    *)
(* carries the ingredient kinds and (doubled) quantities of table entry i. *)
(***************************************************************************)
C4_EmissionOrder ==
    pc = "done" =>
        LET table == file[3].items
            arms == file[4].arms
            N == Len(in_recipes)
        IN  /\ Len(table) = N
            /\ Len(arms) > N
            /\ \A i \in 1..N :
                  LET df == in_recipes[i]
                      reqs == df.data.requirements
                  IN  /\ table[i].result.kind = df.name
                      /\ table[i].result.amount = df.data.amount
                      /\ Len(table[i].requirements) = Len(reqs)
                      /\ \A j \in 1..Len(reqs) :
                            /\ table[i].requirements[j].kind = reqs[j][1]
                            /\ table[i].requirements[j].amount = reqs[j][2]
                      /\ ~arms[i].wild
                      /\ arms[i].pat = i - 1
                      /\ Len(arms[i].slots) = Len(table[i].requirements) + 1
                      /\ \A j \in 1..Len(table[i].requirements) :
                            /\ arms[i].slots[j].filter = table[i].requirements[j].kind
                            /\ arms[i].slots[j].capacity
                                  = 2 * table[i].requirements[j].amount
                      /\ arms[i].slots[Len(arms[i].slots)].capacity
                            = 2 * table[i].result.amount

C4_Witness ==
    /\ pc = "done"
    /\ Len(in_recipes) = 2
    /\ in_recipes[1].data.requirements # in_recipes[2].data.requirements
    /\ in_recipes[1].data.amount # in_recipes[2].data.amount
    /\ Len(file[3].items) = 2
    /\ file[4].arms[2].pat = 1

(***************************************************************************)
(* C5: for N general recipes the written match has exactly one arm for     *)
(* each index 0..N-1, no arm for an index >= N, and every index >= N       *)
(* selects the single `_ => unreachable!()` arm, never a layout.           *)
(***************************************************************************)
C5_MatchExhaustive ==
    pc = "done" =>
        LET arms == file[4].arms
            N == Len(in_recipes)
        IN  /\ \A i \in 0..(N - 1) :
                  /\ Cardinality({j \in 1..Len(arms) :
                                     ~arms[j].wild /\ arms[j].pat = i}) = 1
                  /\ MatchArm(arms, i).body = "SLOTS"
                  /\ MatchArm(arms, i).pat = i
            /\ \A j \in 1..Len(arms) : ~arms[j].wild => arms[j].pat \in 0..(N - 1)
            /\ Cardinality({j \in 1..Len(arms) : arms[j].wild}) = 1
            /\ arms[Len(arms)].wild
            /\ \A idx \in N..(N + 3) :
                  /\ MatchArm(arms, idx).wild
                  /\ MatchArm(arms, idx).body = "unreachable!()"
                  /\ MatchArm(arms, idx).slots = <<>>

C5_Witness ==
    /\ pc = "done"
    /\ in_recipes = recipes
    /\ Len(file[4].arms) = 18
    /\ file[4].arms[17].pat = 16
    /\ file[4].arms[18].wild

(***************************************************************************)
(* C6: for every authored recipe of the smelting and of the general set    *)
(* (durations 1, 5, 0.5, 2, 12 and 0.1), the written tick expression       *)
(* divided by T is the authored duration.                                  *)
(***************************************************************************)
C6_AuthoredRoundTrip ==
    (pc = "done" /\ in_furnace = furnace_recipes /\ in_recipes = recipes) =>
        /\ {df.data.time : df \in Items(in_furnace) \cup Items(in_recipes)}
              = {Dur(1, 1), Dur(5, 1), Dur(1, 2), Dur(2, 1), Dur(12, 1), Dur(1, 10)}
        /\ Len(file[2].items) = Len(in_furnace)
        /\ Len(file[3].items) = Len(in_recipes)
        /\ \A i \in 1..Len(in_furnace) :
              Reconstructs(file[2].items[i].time, in_furnace[i].data.time)
        /\ \A i \in 1..Len(in_recipes) :
              Reconstructs(file[3].items[i].time, in_recipes[i].data.time)

C6_Witness ==
    /\ pc = "done"
    /\ in_furnace = furnace_recipes
    /\ in_recipes = recipes
    /\ file[2].items[3].time = [op |-> "mul", k |-> 5]
    /\ file[3].items[14].time = [op |-> "mul", k |-> 12]
    /\ file[3].items[17].time = [op |-> "div", k |-> 10]

(***************************************************************************)
(* C9: the file is written at most once and only with all three            *)
(* declarations generated for every definition; when a definition of       *)
(* either dictionary raises, at any position, the run stops before the     *)
(* write and the file stays untouched.                                     *)
(***************************************************************************)
C9_NoPartialArtifact ==
    /\ writes <= 1
    /\ (file # <<>> \/ writes > 0) =>
          /\ pc = "done"
          /\ writes = 1
          /\ Len(file) = 4
          /\ file[1] = Header
          /\ file[2].decl = "FURNACE_RECIPES"
          /\ Len(file[2].items) = Len(in_furnace)
          /\ file[3].decl = "RECIPES"
          /\ Len(file[3].items) = Len(in_recipes)
          /\ file[4].decl = "crafting_recipe_inventory"
          /\ Len(file[4].arms) = Len(in_recipes) + 1
    /\ pc = "done" => file = string
    /\ pc = "raised" => (file = <<>> /\ writes = 0)
    /\ (AnyRaises(in_furnace) \/ AnyRaises(in_recipes)) =>
          /\ pc \in {"L235", "L237", "raised"}
          /\ file = <<>>
          /\ writes = 0

C9_Witness ==
    /\ pc = "raised"
    /\ ~AnyRaises(in_furnace)
    /\ Len(in_recipes) = 2
    /\ in_recipes[1].data.time.n > 0
    /\ in_recipes[2].data.time.n = 0
    /\ Len(string) = 2
    /\ file = <<>>
    /\ writes = 0

====
